---- MODULE Spec2Model ----
(***************************************************************************)
(* TrustGuard: the deterministic risk analysis of a message                *)
(* (trustguard/risk.py, analyze_text) and the advisory LLM call            *)
(* (trustguard/llm.py, llm_assess_message).                                *)
(*                                                                         *)
(* A Python str is a sequence of Unicode code points (naturals); the       *)
(* trailing comment of every string literal shows its text.  The           *)
(* character operators below (lower, isupper, whitespace, script) are      *)
(* exact on the alphabet: line feed, the printable ASCII characters        *)
(* 32..126, the Greek letters U+0391..U+03A1, U+03A4..U+03A9,              *)
(* U+03B1..U+03C9 and the Cyrillic letters U+0410..U+044F.  A URL that     *)
(* holds both "[" and "]" is outside the modelled domain.                  *)
(***************************************************************************)
EXTENDS Integers, Sequences, FiniteSets, TLC

VARIABLES
    fn,             \* the function under call
    text,           \* its text argument: [isNone, chars]
    env,            \* llm_assess_message: the environment and the service's answer
    outcome,        \* "pending", "returned" or "raised"
    result,         \* the returned dict (or the exception raised)
    client_created, \* whether OpenAI(api_key=...) was constructed
    network_calls   \* the number of chat.completions.create calls made

vars == <<fn, text, env, outcome, result, client_created, network_calls>>

(***************************************************************************)
(* Bounds of the input space.                                              *)
(***************************************************************************)
\* a text is at most MaxFrags fragments joined by single spaces
MaxFrags == 2

(***************************************************************************)
(* Characters and strings.                                                 *)
(***************************************************************************)
GreekUpper == (913..929) \cup (932..937)
GreekLower == 945..969
CyrillicUpper == 1040..1071
CyrillicLower == 1072..1103

\* str.isupper() of one character
IsUpperChar(c) == c \in (65..90) \cup GreekUpper \cup CyrillicUpper

\* str.lower() of one character
LowerChar(c) == IF IsUpperChar(c) THEN c + 32 ELSE c

\* str.lower()
Lower(s) == [i \in 1..Len(s) |-> LowerChar(s[i])]

\* the class \s of the re module
IsSpace(c) == c \in {9, 10, 11, 12, 13, 28, 29, 30, 31, 32, 133, 160}

\* needle in hay
Contains(hay, needle) ==
    \E i \in 0..(Len(hay) - Len(needle)) :
        SubSeq(hay, i + 1, i + Len(needle)) = needle

\* any(k in text_lower for k in keywords)
AnyKeyword(text_lower, keywords) ==
    \E i \in 1..Len(keywords) : Contains(text_lower, keywords[i])

\* s.count(ch) for a single character ch
Count(s, ch) == Cardinality({i \in 1..Len(s) : s[i] = ch})

\* the least index >= from of a character of set in s, Len(s) + 1 if none
RECURSIVE FirstIndex(_, _, _)
FirstIndex(s, set, from) ==
    IF from > Len(s) THEN Len(s) + 1
    ELSE IF s[from] \in set THEN from
    ELSE FirstIndex(s, set, from + 1)

\* the greatest index of a character of set in s, 0 if none
RECURSIVE LastIndex(_, _, _)
LastIndex(s, set, from) ==
    IF from < 1 THEN 0
    ELSE IF s[from] \in set THEN from
    ELSE LastIndex(s, set, from - 1)

\* text or ""
OrEmpty(t) == IF t.isNone THEN <<>> ELSE t.chars

(***************************************************************************)
(* Module constants of risk.py.                                            *)
(***************************************************************************)
KNOWN_BRANDS ==
    <<
       <<109, 105, 99, 114, 111, 115, 111, 102, 116, 46, 99, 111, 109>>,  \* microsoft.com
       <<103, 111, 111, 103, 108, 101, 46, 99, 111, 109>>,  \* google.com
       <<97, 112, 112, 108, 101, 46, 99, 111, 109>>,  \* apple.com
       <<112, 97, 121, 112, 97, 108, 46, 99, 111, 109>>,  \* paypal.com
       <<97, 109, 97, 122, 111, 110, 46, 99, 111, 109>>,  \* amazon.com
       <<102, 97, 99, 101, 98, 111, 111, 107, 46, 99, 111, 109>>,  \* facebook.com
       <<98, 97, 110, 107, 111, 102, 97, 109, 101, 114, 105, 99, 97, 46, 99, 111, 109>>,  \* bankofamerica.com
       <<104, 115, 98, 99, 46, 99, 111, 109>>,  \* hsbc.com
       <<115, 108, 115, 112, 46, 115, 107>>,  \* slsp.sk
       <<116, 97, 116, 114, 97, 98, 97, 110, 107, 97, 46, 115, 107>>   \* tatrabanka.sk
    >>

URGENCY_KEYWORDS ==
    <<
       <<117, 114, 103, 101, 110, 116>>,  \* urgent
       <<105, 109, 109, 101, 100, 105, 97, 116, 101, 108, 121>>,  \* immediately
       <<97, 99, 116, 32, 110, 111, 119>>,  \* act now
       <<50, 52, 32, 104, 111, 117, 114, 115>>,  \* 24 hours
       <<102, 105, 110, 97, 108, 32, 110, 111, 116, 105, 99, 101>>,  \* final notice
       <<121, 111, 117, 114, 32, 97, 99, 99, 111, 117, 110, 116, 32, 119, 105, 108, 108, 32, 98, 101>>,  \* your account will be
       <<115, 117, 115, 112, 101, 110, 100, 101, 100>>,  \* suspended
       <<108, 97, 115, 116, 32, 119, 97, 114, 110, 105, 110, 103>>,  \* last warning
       <<111, 118, 101, 114, 100, 117, 101>>   \* overdue
    >>

THREAT_KEYWORDS ==
    <<
       <<108, 101, 103, 97, 108, 32, 97, 99, 116, 105, 111, 110>>,  \* legal action
       <<112, 111, 108, 105, 99, 101>>,  \* police
       <<108, 97, 119, 115, 117, 105, 116>>,  \* lawsuit
       <<112, 114, 111, 115, 101, 99, 117, 116, 105, 111, 110>>,  \* prosecution
       <<102, 105, 110, 101>>   \* fine
    >>

PAYMENT_KEYWORDS ==
    <<
       <<103, 105, 102, 116, 32, 99, 97, 114, 100>>,  \* gift card
       <<105, 116, 117, 110, 101, 115, 32, 99, 97, 114, 100>>,  \* itunes card
       <<98, 105, 116, 99, 111, 105, 110>>,  \* bitcoin
       <<99, 114, 121, 112, 116, 111>>,  \* crypto
       <<119, 105, 114, 101, 32, 116, 114, 97, 110, 115, 102, 101, 114>>,  \* wire transfer
       <<119, 101, 115, 116, 101, 114, 110, 32, 117, 110, 105, 111, 110>>,  \* western union
       <<109, 111, 110, 101, 121, 103, 114, 97, 109>>,  \* moneygram
       <<118, 111, 117, 99, 104, 101, 114>>   \* voucher
    >>

CREDENTIAL_KEYWORDS ==
    <<
       <<112, 97, 115, 115, 119, 111, 114, 100>>,  \* password
       <<111, 116, 112>>,  \* otp
       <<50, 102, 97>>,  \* 2fa
       <<118, 101, 114, 105, 102, 105, 99, 97, 116, 105, 111, 110, 32, 99, 111, 100, 101>>,  \* verification code
       <<80, 73, 78>>,  \* PIN
       <<112, 97, 115, 115, 99, 111, 100, 101>>   \* passcode
    >>

SUSPICIOUS_TLDS ==
    <<
       <<122, 105, 112>>,  \* zip
       <<116, 111, 112>>,  \* top
       <<99, 97, 109>>,  \* cam
       <<105, 110, 102, 111>>,  \* info
       <<98, 105, 122>>,  \* biz
       <<114, 117>>,  \* ru
       <<99, 110>>   \* cn
    >>

(***************************************************************************)
(* URL_REGEX = https?://[^\s]+ with re.IGNORECASE, and extract_urls.       *)
(***************************************************************************)
\* the literal lit (given in lower case) matches s at index i, ignoring case
MatchesIgnoreCase(s, i, lit) ==
    /\ i + Len(lit) - 1 <= Len(s)
    /\ \A k \in 1..Len(lit) : LowerChar(s[i + k - 1]) = lit[k]

\* [^\s] matches s at index i
NonSpaceAt(s, i) == i <= Len(s) /\ ~IsSpace(s[i])

\* the index after the run of [^\s] characters that starts at index i
RECURSIVE NonSpaceEnd(_, _)
NonSpaceEnd(s, i) ==
    IF NonSpaceAt(s, i) THEN NonSpaceEnd(s, i + 1) ELSE i

\* the index after the match of URL_REGEX that starts at index i, 0 if none
MatchEnd(s, i) ==
    IF ~MatchesIgnoreCase(s, i, <<104, 116, 116, 112>>) THEN 0
    ELSE IF /\ MatchesIgnoreCase(s, i + 4, <<115, 58, 47, 47>>)
            /\ NonSpaceAt(s, i + 8)
         THEN NonSpaceEnd(s, i + 8)
    ELSE IF /\ MatchesIgnoreCase(s, i + 4, <<58, 47, 47>>)
            /\ NonSpaceAt(s, i + 7)
         THEN NonSpaceEnd(s, i + 7)
    ELSE 0

RECURSIVE FindAll(_, _)

\* one step of the scan at index i, where e = MatchEnd(s, i): a match is
\* kept and the scan goes on behind it
FindAllStep(s, i, e) ==
    IF e > 0 THEN <<SubSeq(s, i, e - 1)>> \o FindAll(s, e)
    ELSE FindAll(s, i + 1)

\* URL_REGEX.findall(s), scanning from index i
FindAll(s, i) ==
    IF i > Len(s) THEN <<>> ELSE FindAllStep(s, i, MatchEnd(s, i))

extract_urls(t) == FindAll(OrEmpty(t), 1)

(***************************************************************************)
(* contains_non_ascii, has_confusable_chars, domain_from_url.              *)
(***************************************************************************)
contains_non_ascii(s) == \E i \in 1..Len(s) : s[i] > 127

\* the script families has_confusable_chars finds in the name of a character
ScriptsOfChar(c) ==
    IF c \in CyrillicUpper \cup CyrillicLower THEN {"CYRILLIC"}
    ELSE IF c \in GreekUpper \cup GreekLower THEN {"GREEK"}
    ELSE IF c \in (65..90) \cup (97..122) THEN {"LATIN"}
    ELSE {}

has_confusable_chars(s) ==
    Cardinality(UNION {ScriptsOfChar(s[i]) : i \in 1..Len(s)}) > 1

\* the characters urlsplit accepts in a scheme
SchemeChars == (65..90) \cup (97..122) \cup (48..57) \cup {43, 45, 46}

\* urlsplit finds a scheme in front of the colon at index colon
HasScheme(url, colon) ==
    /\ colon > 1
    /\ colon <= Len(url)
    /\ url[1] \in (65..90) \cup (97..122)
    /\ \A k \in 1..(colon - 1) : url[k] \in SchemeChars

\* the url behind its scheme
AfterScheme(url, colon) ==
    IF HasScheme(url, colon) THEN SubSeq(url, colon + 1, Len(url)) ELSE url

\* _splitnetloc: behind "//", up to the first of "/", "?" and "#"
SplitNetloc(rest) ==
    IF Len(rest) >= 2 /\ rest[1] = 47 /\ rest[2] = 47
    THEN SubSeq(rest, 3, FirstIndex(rest, {47, 63, 35}, 3) - 1)
    ELSE <<>>

HasChar(s, ch) == \E k \in 1..Len(s) : s[k] = ch

\* the ValueError ("Invalid IPv6 URL") of a netloc with an unbalanced bracket
CheckBrackets(netloc) ==
    IF HasChar(netloc, 91) # HasChar(netloc, 93)
    THEN [raised |-> TRUE, netloc |-> <<>>]
    ELSE [raised |-> FALSE, netloc |-> netloc]

\* urlparse(url).netloc, or the exception raised
urlparse_netloc(url) ==
    CheckBrackets(SplitNetloc(AfterScheme(url, FirstIndex(url, {58}, 1))))

\* netloc.split(":")[0]
BeforeColon(netloc) == SubSeq(netloc, 1, FirstIndex(netloc, {58}, 1) - 1)

\* the try and except branches of domain_from_url
HostOf(parsed) ==
    IF parsed.raised THEN <<>> ELSE BeforeColon(Lower(parsed.netloc))

domain_from_url(url) == HostOf(urlparse_netloc(url))

\* d.split(".")[-1]
LastLabel(d) == SubSeq(d, LastIndex(d, {46}, Len(d)) + 1, Len(d))

HasSuspiciousTld(d) ==
    \E i \in 1..Len(SUSPICIOUS_TLDS) : LastLabel(d) = SUSPICIOUS_TLDS[i]

(***************************************************************************)
(* similar: difflib.SequenceMatcher(None, a, b).ratio().  No character is  *)
(* junk (isjunk is None, and the popularity heuristic needs 200            *)
(* characters).  Offsets are 0-based and ranges half-open, as in difflib.  *)
(***************************************************************************)
\* the length of the common run of a[i:ahi] and b[j:bhi]
RECURSIVE RunLen(_, _, _, _, _, _)
RunLen(a, b, i, j, ahi, bhi) ==
    IF i < ahi /\ j < bhi /\ a[i + 1] = b[j + 1]
    THEN 1 + RunLen(a, b, i + 1, j + 1, ahi, bhi)
    ELSE 0

SetMax(S) == CHOOSE x \in S : \A y \in S : y <= x
SetMin(S) == CHOOSE x \in S : \A y \in S : x <= y

\* run[i][j]: the length of the common run that starts at a[i], b[j]
RunTable(a, b, alo, ahi, blo, bhi) ==
    [i \in alo..(ahi - 1) |->
        [j \in blo..(bhi - 1) |-> RunLen(a, b, i, j, ahi, bhi)]]

LongestRun(run) ==
    SetMax({0} \cup UNION {{run[i][j] : j \in DOMAIN run[i]} : i \in DOMAIN run})

\* the block of length k that starts earliest in a and, of those, earliest in b
EarliestJ(row, k) == SetMin({j \in DOMAIN row : row[j] = k})
EarliestI(run, k) ==
    SetMin({i \in DOMAIN run : \E j \in DOMAIN run[i] : run[i][j] = k})
BlockInRow(run, i, k) == <<i, EarliestJ(run[i], k), k>>
BlockOfLength(run, k, alo, blo) ==
    IF k = 0 THEN <<alo, blo, 0>> ELSE BlockInRow(run, EarliestI(run, k), k)
LongestBlock(run, alo, blo) == BlockOfLength(run, LongestRun(run), alo, blo)

\* <<i, j, k>>: the longest matching block of a[alo:ahi] and b[blo:bhi]
find_longest_match(a, b, alo, ahi, blo, bhi) ==
    LongestBlock(RunTable(a, b, alo, ahi, blo, bhi), alo, blo)

RECURSIVE MatchingSize(_, _, _, _, _, _)

\* the block <<i, j, k>> and the blocks found to its left and to its right
MatchingAround(a, b, alo, ahi, blo, bhi, i, j, k) ==
    IF k = 0 THEN 0
    ELSE k
         + (IF alo < i /\ blo < j
            THEN MatchingSize(a, b, alo, i, blo, j) ELSE 0)
         + (IF i + k < ahi /\ j + k < bhi
            THEN MatchingSize(a, b, i + k, ahi, j + k, bhi) ELSE 0)

MatchingAroundBlock(a, b, alo, ahi, blo, bhi, m) ==
    MatchingAround(a, b, alo, ahi, blo, bhi, m[1], m[2], m[3])

\* the total size of the blocks get_matching_blocks finds in a[alo:ahi], b[blo:bhi]
MatchingSize(a, b, alo, ahi, blo, bhi) ==
    MatchingAroundBlock(a, b, alo, ahi, blo, bhi,
                        find_longest_match(a, b, alo, ahi, blo, bhi))

\* ratio() as the fraction <<numerator, denominator>> = 2.0 * matches / length;
\* 1.0 when both strings are empty
similar(a, b) ==
    IF Len(a) + Len(b) = 0 THEN <<1, 1>>
    ELSE <<2 * MatchingSize(a, b, 0, Len(a), 0, Len(b)), Len(a) + Len(b)>>

\* ratio > 0.75
AboveThreshold(ratio) == 4 * ratio[1] > 3 * ratio[2]

\* similar(a, b) > 0.75
SimilarAboveThreshold(a, b) == AboveThreshold(similar(a, b))

(***************************************************************************)
(* analyze_text.  The accumulator st holds the locals flags, score and     *)
(* suspicious_domains.  A flag keeps its id and severity; host and pairs   *)
(* are the values its explanation is formatted from.                       *)
(***************************************************************************)
Flag(id, severity, host, pairs) ==
    [id |-> id, severity |-> severity, host |-> host, pairs |-> pairs]

\* one lexical check: flags.append({...}); score += delta
KeywordCheck(st, text_lower, keywords, id, severity, delta) ==
    IF AnyKeyword(text_lower, keywords)
    THEN [st EXCEPT !.flags = Append(@, Flag(id, severity, <<>>, <<>>)),
                    !.score = @ + delta]
    ELSE st

\* lines 87-125: urgency, threats, payment requests, credential requests
LexicalChecks(st, text_lower) ==
    LET s1 == KeywordCheck(st, text_lower, URGENCY_KEYWORDS, "urgency", 2, 15)
        s2 == KeywordCheck(s1, text_lower, THREAT_KEYWORDS, "threat", 2, 10)
        s3 == KeywordCheck(s2, text_lower, PAYMENT_KEYWORDS, "payment", 3, 25)
    IN  KeywordCheck(s3, text_lower, CREDENTIAL_KEYWORDS, "credentials", 3, 25)

\* text.count("!") >= 3 or (len(text) > 0 and uppers > 0.4 * len(text))
StyleAnomaly(s) ==
    \/ Count(s, 33) >= 3
    \/ /\ Len(s) > 0
       /\ 10 * Cardinality({i \in 1..Len(s) : IsUpperChar(s[i])}) > 4 * Len(s)

StyleCheck(st, s) ==
    IF StyleAnomaly(s)
    THEN [st EXCEPT !.flags = Append(@, Flag("style", 1, <<>>, <<>>)),
                    !.score = @ + 5]
    ELSE st

UnicodeCheck(st, d) ==
    IF contains_non_ascii(d) \/ has_confusable_chars(d)
    THEN [st EXCEPT !.flags = Append(@, Flag("unicode", 3, d, <<>>)),
                    !.score = @ + 20]
    ELSE st

\* the condition of line 154, without the test for an exact match
IsLookalikeNoExactTest(d, kb) == SimilarAboveThreshold(d, kb)

\* the condition of line 154: d != kb and similar(d, kb) > 0.75
IsLookalike(d, kb) == d # kb /\ SimilarAboveThreshold(d, kb)

\* suspicious_domains.append((d, kb)); break, for the first brand that hits
AppendFirstHit(st, d, hits) ==
    IF hits = {} THEN st
    ELSE [st EXCEPT !.suspicious_domains =
                        Append(@, <<d, KNOWN_BRANDS[SetMin(hits)]>>)]

\* for kb in KNOWN_BRANDS: if d != kb and similar(d, kb) > 0.75: ...
LookalikeScan(st, d) ==
    AppendFirstHit(st, d,
        {i \in 1..Len(KNOWN_BRANDS) : IsLookalike(d, KNOWN_BRANDS[i])})

\* a tld check that records the flag of a category only once
TldCheckOncePerMessage(st, d) ==
    IF HasSuspiciousTld(d)
    THEN [st EXCEPT !.flags = IF \E i \in 1..Len(@) : @[i].id = "tld"
                              THEN @
                              ELSE Append(@, Flag("tld", 1, d, <<>>)),
                    !.score = @ + 5]
    ELSE st

TldCheck(st, d) ==
    IF HasSuspiciousTld(d)
    THEN [st EXCEPT !.flags = Append(@, Flag("tld", 1, d, <<>>)),
                    !.score = @ + 5]
    ELSE st

\* the body of "for u in urls" for the host d of one url
UrlCheck(st, d) ==
    IF d = <<>> THEN st
    ELSE TldCheck(LookalikeScan(UnicodeCheck(st, d), d), d)

\* the loop "for u in urls", from urls[i] on
RECURSIVE UrlChecks(_, _, _)
UrlChecks(st, urls, i) ==
    IF i > Len(urls) THEN st
    ELSE UrlChecks(UrlCheck(st, domain_from_url(urls[i])), urls, i + 1)

\* a lookalike check that puts its flag in front
LookalikeCheckInFront(st) ==
    IF st.suspicious_domains # <<>>
    THEN [st EXCEPT !.flags = <<Flag("lookalike", 3, <<>>, st.suspicious_domains)>> \o @,
                    !.score = @ + 25]
    ELSE st

\* lines 167-175
LookalikeCheck(st) ==
    IF st.suspicious_domains # <<>>
    THEN [st EXCEPT !.flags = Append(@, Flag("lookalike", 3, <<>>, st.suspicious_domains)),
                    !.score = @ + 25]
    ELSE st

\* a clamp that forgets the upper limit
ClampLowerOnly(score) == IF score < 0 THEN 0 ELSE score

\* max(0, min(100, score))
Clamp(score) ==
    LET m == IF score < 100 THEN score ELSE 100
    IN  IF m > 0 THEN m ELSE 0

\* a verdict whose first threshold is exclusive
VerdictOfExclusive(score) ==
    IF score > 70 THEN [verdict |-> "High Risk", color |-> "red"]
    ELSE IF score >= 35 THEN [verdict |-> "Caution", color |-> "orange"]
    ELSE [verdict |-> "Likely Safe", color |-> "green"]

\* lines 179-187
VerdictOf(score) ==
    IF score >= 70 THEN [verdict |-> "High Risk", color |-> "red"]
    ELSE IF score >= 35 THEN [verdict |-> "Caution", color |-> "orange"]
    ELSE [verdict |-> "Likely Safe", color |-> "green"]

\* the URL checks and the lookalike check, lines 137-175
DomainChecks(st, urls) == LookalikeCheck(UrlChecks(st, urls, 1))

\* the locals of analyze_text before line 177, for a str argument
Accumulate(s) ==
    DomainChecks(
        StyleCheck(
            LexicalChecks([flags |-> <<>>, score |-> 0, suspicious_domains |-> <<>>],
                          Lower(s)),
            s),
        FindAll(s, 1))

\* the returned dict
Result(score, v, flags, urls) ==
    [score |-> score, verdict |-> v.verdict, color |-> v.color,
     flags |-> flags, urls |-> urls]

\* lines 177-195, score being the clamped score
ReturnWith(score, flags, urls) == Result(score, VerdictOf(score), flags, urls)

Return(st, urls) == ReturnWith(Clamp(st.score), st.flags, urls)

\* analyze_text(text) for a str argument
analyze_text(s) == Return(Accumulate(s), FindAll(s, 1))

(***************************************************************************)
(* llm_assess_message.  A JSON value is [t, s, n]: its type t ("absent"    *)
(* for a key the object does not hold), its text s when a string, and its  *)
(* number n in thousandths when a number.  A Python float is kept in       *)
(* thousandths too.                                                        *)
(***************************************************************************)
JAbsent == [t |-> "absent", s |-> "", n |-> 0]
JNull == [t |-> "null", s |-> "", n |-> 0]
JNum(milli) == [t |-> "num", s |-> "", n |-> milli]
JStr(str) == [t |-> "str", s |-> str, n |-> 0]
\* a list of strings, named by what it holds
JList(what) == [t |-> "list", s |-> what, n |-> 0]

\* os.getenv gives None for a variable that is not set
KeyNone == "<None>"

\* not api_key
KeyMissing(api_key) == api_key \in {KeyNone, ""}

\* lines 25-33: the key of the environment, else the one load_dotenv() puts
\* there; load_dotenv does not override a variable that is set, and a
\* failing import of dotenv is swallowed
ResolveApiKey(e) ==
    IF ~KeyMissing(e.key_env) THEN e.key_env
    ELSE IF e.dotenv = "has_key" /\ e.key_env = KeyNone THEN "sk-dotenv"
    ELSE e.key_env

\* data.get(key, default)
DictGet(v, default) == IF v.t = "absent" THEN default ELSE v

\* lines 59-69: the fallback for a failing service call
ServiceFallback ==
    [score |-> 50,
     verdict |-> JStr("Caution"),
     reasons |-> JList("LLM error"),
     advice |-> JList("do not share codes; verify via official channels")]

\* lines 87-98: the fallback for a response that does not parse
ParseFallback ==
    [score |-> 50,
     verdict |-> JStr("Caution"),
     reasons |-> JList("LLM returned non-JSON content."),
     advice |-> JList("avoid urgency traps; never share OTPs or passwords"),
     confidence |-> 500]

\* max(lo, min(hi, x)) on thousandths
ClampMilli(lo, hi, x) ==
    LET m == IF x < hi THEN x ELSE hi
    IN  IF m > lo THEN m ELSE lo

\* lines 73-98: json.loads and the construction of the judgment; a
\* json.JSONDecodeError, the AttributeError of data.get on a value that is
\* not an object and the TypeError of min() on a value that is not a number
\* all reach the except branch
ParseResponse(p) ==
    LET score == DictGet(p.score, JNum(50000))
        confidence == DictGet(p.confidence, JNum(600))
    IN  IF p.kind # "object" THEN ParseFallback
        ELSE IF score.t # "num" THEN ParseFallback
        ELSE IF confidence.t # "num" THEN ParseFallback
        ELSE [score |-> ClampMilli(0, 100000, score.n) \div 1000,
              verdict |-> DictGet(p.verdict, JStr("Caution")),
              reasons |-> DictGet(p.reasons, JList("")),
              advice |-> DictGet(p.advice, JList("")),
              confidence |-> ClampMilli(0, 1000, confidence.n)]

(***************************************************************************)
(* The inputs.                                                             *)
(***************************************************************************)
Frags ==
    <<
       <<70, 73, 78, 69>>,  \* FINE
       <<98, 105, 116, 99, 111, 105, 110>>,  \* bitcoin
       <<79, 116, 112>>,  \* Otp
       <<112, 105, 110>>,  \* pin
       <<33, 33, 33>>,  \* !!!
       <<104, 116, 116, 112, 58, 47, 47, 103, 959, 111, 103, 108, 101, 46, 99, 111, 109>>,  \* http://gU+03BFogle.com
       <<104, 116, 116, 112, 115, 58, 47, 47, 112, 97, 121, 112, 97, 49, 46, 99, 111, 109, 47, 108, 111, 103, 105, 110>>,  \* https://paypa1.com/login
       <<104, 116, 116, 112, 58, 47, 47, 103, 111, 111, 103, 108, 101, 46, 99, 111, 109>>,  \* http://google.com
       <<72, 84, 84, 80, 58, 47, 47, 69, 86, 73, 76, 46, 82, 85, 58, 56, 48, 56, 48, 47, 97>>,  \* HTTP://EVIL.RU:8080/a
       <<104, 116, 116, 112, 58, 47, 47, 47, 120>>,  \* http:///x
       <<104, 116, 116, 112, 58, 47, 47, 91, 120>>,  \* http://[x
       <<117, 114, 103, 101, 110, 116, 32, 102, 105, 110, 101, 32, 98, 105, 116, 99, 111, 105, 110, 32, 111, 116, 112, 32, 33, 33, 33>>,  \* urgent fine bitcoin otp !!!
       <<104, 116, 116, 112, 58, 47, 47, 120, 46, 122, 105, 112, 32, 104, 116, 116, 112, 58, 47, 47, 103, 1086, 111, 103, 108, 101, 46, 99, 111, 109>>   \* http://x.zip http://gU+043Eogle.com
    >>

\* the fragments ix[1], ..., ix[n], joined by single spaces
RECURSIVE JoinFrags(_, _)
JoinFrags(ix, n) ==
    IF n = 0 THEN <<>>
    ELSE IF n = 1 THEN Frags[ix[1]]
    ELSE JoinFrags(ix, n - 1) \o <<32>> \o Frags[ix[n]]

None == [isNone |-> TRUE, chars |-> <<>>]
Str(s) == [isNone |-> FALSE, chars |-> s]

TextInputs ==
    {None} \cup
    {Str(JoinFrags(ix, n)) :
        ix \in [1..MaxFrags -> 1..Len(Frags)], n \in 0..MaxFrags}

NoPayload ==
    [kind |-> "none", score |-> JAbsent, verdict |-> JAbsent,
     reasons |-> JAbsent, advice |-> JAbsent, confidence |-> JAbsent]

\* message contents that are no JSON object: text, and a JSON list
NonObjectPayloads ==
    {[NoPayload EXCEPT !.kind = k] : k \in {"not_json", "non_object"}}

ScoreValues == {JAbsent, JNull, JStr("high"), JNum(-5000), JNum(85500), JNum(250000)}
VerdictValues == {JAbsent, JStr("High Risk"), JNum(7000)}
ReasonsValues == {JAbsent, JList("reasons"), JStr("because")}
AdviceValues == {JAbsent, JList("advice")}
ConfidenceValues == {JAbsent, JStr("sure"), JNum(-200), JNum(900), JNum(1500)}

ObjectPayloads ==
    {[kind |-> "object", score |-> s, verdict |-> v, reasons |-> r,
      advice |-> a, confidence |-> c] :
        s \in ScoreValues, v \in VerdictValues, r \in ReasonsValues,
        a \in AdviceValues, c \in ConfidenceValues}

KeyEnvValues == {KeyNone, "", "sk-env"}
DotenvValues == {"not_installed", "no_key", "has_key"}

LlmInputs ==
    {[key_env |-> k, dotenv |-> d, service |-> s, payload |-> NoPayload] :
        k \in KeyEnvValues, d \in DotenvValues,
        s \in {"raises", "content_none"}}
    \cup
    {[key_env |-> k, dotenv |-> d, service |-> "content", payload |-> p] :
        k \in KeyEnvValues, d \in DotenvValues,
        p \in NonObjectPayloads \cup ObjectPayloads}

NoEnv ==
    [key_env |-> KeyNone, dotenv |-> "not_installed", service |-> "raises",
     payload |-> NoPayload]

NoResult == [score |-> 0]

(***************************************************************************)
(* The state machine: one call of one of the two functions.                *)
(***************************************************************************)
Init ==
    /\ \/ fn = "analyze_text" /\ text \in TextInputs /\ env = NoEnv
       \/ fn = "llm_assess_message" /\ text = Str(<<>>) /\ env \in LlmInputs
    /\ outcome = "pending"
    /\ result = NoResult
    /\ client_created = FALSE
    /\ network_calls = 0

\* analyze_text(text): text.count on line 128 raises AttributeError for None
AnalyzeText ==
    /\ fn = "analyze_text"
    /\ outcome = "pending"
    /\ IF text.isNone
       THEN /\ outcome' = "raised"
            /\ result' = [exception |-> "AttributeError"]
       ELSE /\ outcome' = "returned"
            /\ result' = analyze_text(text.chars)
    /\ UNCHANGED <<fn, text, env, client_created, network_calls>>

\* llm_assess_message(text, sender, allowlist)
LlmAssessMessage ==
    /\ fn = "llm_assess_message"
    /\ outcome = "pending"
    /\ LET api_key == ResolveApiKey(env)
       IN  IF KeyMissing(api_key)
           THEN /\ outcome' = "raised"
                /\ result' = [exception |-> "RuntimeError"]
                /\ UNCHANGED <<client_created, network_calls>>
           ELSE /\ client_created' = TRUE
                /\ network_calls' = network_calls + 1
                /\ outcome' = "returned"
                /\ result' = IF env.service \in {"raises", "content_none"}
                             THEN ServiceFallback
                             ELSE ParseResponse(env.payload)
    /\ UNCHANGED <<fn, text, env>>

Next == AnalyzeText \/ LlmAssessMessage

Spec == Init /\ [][Next]_vars

(***************************************************************************)
(* Properties.                                                             *)
(***************************************************************************)
Analyzed == fn = "analyze_text" /\ outcome = "returned"
Judged == fn = "llm_assess_message" /\ outcome = "returned"

Delta(cond, n) == IF cond THEN n ELSE 0

\* the derived hosts of the extracted URLs, in URL order
Hosts(s) ==
    LET urls == FindAll(s, 1)
    IN  [i \in 1..Len(urls) |-> domain_from_url(urls[i])]

UnicodeHost(d) == d # <<>> /\ (contains_non_ascii(d) \/ has_confusable_chars(d))
TldHost(d) == d # <<>> /\ HasSuspiciousTld(d)
LookalikeHost(d) ==
    /\ d # <<>>
    /\ \E k \in 1..Len(KNOWN_BRANDS) :
           d # KNOWN_BRANDS[k] /\ SimilarAboveThreshold(d, KNOWN_BRANDS[k])

\* the sum of the deltas of the checks that contribute, credential keywords
\* taken from the list creds
RawSum(s, creds) ==
    LET lo == Lower(s)
        h == Hosts(s)
    IN  Delta(AnyKeyword(lo, URGENCY_KEYWORDS), 15)
        + Delta(AnyKeyword(lo, THREAT_KEYWORDS), 10)
        + Delta(AnyKeyword(lo, PAYMENT_KEYWORDS), 25)
        + Delta(AnyKeyword(lo, creds), 25)
        + Delta(StyleAnomaly(s), 5)
        + 20 * Cardinality({i \in 1..Len(h) : UnicodeHost(h[i])})
        + 5 * Cardinality({i \in 1..Len(h) : TldHost(h[i])})
        + Delta(\E i \in 1..Len(h) : LookalikeHost(h[i]), 25)

\* the credential-request set as the specification lists it
SpecCredentialSet ==
    <<
       <<112, 97, 115, 115, 119, 111, 114, 100>>,  \* password
       <<111, 116, 112>>,  \* otp
       <<50, 102, 97>>,  \* 2fa
       <<118, 101, 114, 105, 102, 105, 99, 97, 116, 105, 111, 110, 32, 99, 111, 100, 101>>,  \* verification code
       <<112, 105, 110>>,  \* pin
       <<112, 97, 115, 115, 99, 111, 100, 101>>   \* passcode
    >>

FlagIds(flags) == [i \in 1..Len(flags) |-> flags[i].id]
CountId(flags, id) == Cardinality({i \in 1..Len(flags) : flags[i].id = id})

\* C1: the returned score lies in 0..100, and it is exactly 100 whenever the
\* raw sum of the contributing checks' deltas exceeds 100.
C1_ScoreClamped ==
    Analyzed =>
        /\ result.score \in 0..100
        /\ RawSum(text.chars, CREDENTIAL_KEYWORDS) > 100 => result.score = 100

C1_Witness ==
    /\ Analyzed
    /\ RawSum(text.chars, CREDENTIAL_KEYWORDS) > 100
    /\ result.score = 100

\* C2: analyze_text never raises; every call returns a populated result, and
\* for empty or absent text that result is score 0, "Likely Safe", no flags
\* and no urls.
C2_NeverRaises ==
    (fn = "analyze_text" /\ outcome # "pending") =>
        /\ outcome = "returned"
        /\ OrEmpty(text) = <<>> =>
               /\ result.score = 0
               /\ result.verdict = "Likely Safe"
               /\ result.flags = <<>>
               /\ result.urls = <<>>

\* C3 as stated: no two flags of a result share an id.
C3_NoDuplicateFlagIds ==
    Analyzed =>
        \A i, j \in 1..Len(result.flags) :
            i # j => result.flags[i].id # result.flags[j].id

\* C3 amended: the ids of the lexical, style and lookalike flags occur at
\* most once; there is one "unicode" flag for every extracted URL whose host
\* is non-ASCII or mixed-script and one "tld" flag for every extracted URL
\* whose host has a suspicious TLD.
C3_OneFlagPerQualifyingUrl ==
    Analyzed =>
        LET h == Hosts(text.chars)
        IN  /\ \A id \in {"urgency", "threat", "payment", "credentials",
                          "style", "lookalike"} :
                   CountId(result.flags, id) <= 1
            /\ CountId(result.flags, "unicode")
                   = Cardinality({i \in 1..Len(h) : UnicodeHost(h[i])})
            /\ CountId(result.flags, "tld")
                   = Cardinality({i \in 1..Len(h) : TldHost(h[i])})

C3_Witness ==
    /\ Analyzed
    /\ CountId(result.flags, "unicode") >= 2
    /\ CountId(result.flags, "tld") >= 1

\* C4: a text whose lower-cased form contains a member of the
\* credential-request set ("pin" among them) yields exactly one flag with id
\* "credentials", of severity 3.
C4_CredentialKeywordsDetected ==
    (Analyzed /\ AnyKeyword(Lower(text.chars), SpecCredentialSet)) =>
        /\ CountId(result.flags, "credentials") = 1
        /\ \A i \in 1..Len(result.flags) :
               result.flags[i].id = "credentials" => result.flags[i].severity = 3

IsKnownBrand(d) == \E k \in 1..Len(KNOWN_BRANDS) : d = KNOWN_BRANDS[k]

\* C5: a derived host that equals an entry of KNOWN_BRANDS is in no lookalike
\* pair, and a message all of whose hosts are such entries has no lookalike
\* flag.
C5_ExactBrandNeverLookalike ==
    Analyzed =>
        LET h == Hosts(text.chars)
        IN  /\ \A i \in 1..Len(result.flags) :
                   \A p \in 1..Len(result.flags[i].pairs) :
                       ~IsKnownBrand(result.flags[i].pairs[p][1])
            /\ (\A i \in 1..Len(h) : h[i] = <<>> \/ IsKnownBrand(h[i]))
                   => CountId(result.flags, "lookalike") = 0

C5_Witness ==
    /\ Analyzed
    /\ \E i \in 1..Len(Hosts(text.chars)) : IsKnownBrand(Hosts(text.chars)[i])
    /\ CountId(result.flags, "lookalike") = 1

\* C6: the returned score is the clamped sum of 15, 10, 25 and 25 for the
\* keyword categories that match, 5 for the style anomaly, 20 and 5 per
\* qualifying URL and 25 once for the lookalike pairs; the credential
\* category is that of the specification.
C6_ScoreIsClampedSum ==
    Analyzed =>
        LET raw == RawSum(text.chars, SpecCredentialSet)
        IN  result.score = IF raw > 100 THEN 100 ELSE raw

\* C7: score >= 70 gives ("High Risk", "red"), 35..69 gives ("Caution",
\* "orange"), 0..34 gives ("Likely Safe", "green"); a result without flags
\* has score 0 and verdict "Likely Safe".
C7_VerdictFromScore ==
    Analyzed =>
        /\ result.score >= 70 =>
               result.verdict = "High Risk" /\ result.color = "red"
        /\ result.score \in 35..69 =>
               result.verdict = "Caution" /\ result.color = "orange"
        /\ result.score \in 0..34 =>
               result.verdict = "Likely Safe" /\ result.color = "green"
        /\ result.flags = <<>> =>
               result.score = 0 /\ result.verdict = "Likely Safe"

C7_Witness ==
    /\ Analyzed
    /\ result.score = 70
    /\ result.verdict = "High Risk"

\* the place of a flag id in the detection order
Rank(id) ==
    CASE id = "urgency" -> 1
      [] id = "threat" -> 2
      [] id = "payment" -> 3
      [] id = "credentials" -> 4
      [] id = "style" -> 5
      [] id \in {"unicode", "tld"} -> 6
      [] id = "lookalike" -> 7

\* the hosts of the per-URL flags that the hosts h[i..] qualify for
RECURSIVE PerUrlHosts(_, _)
PerUrlHosts(h, i) ==
    IF i > Len(h) THEN <<>>
    ELSE (IF UnicodeHost(h[i]) THEN <<h[i]>> ELSE <<>>)
         \o (IF TldHost(h[i]) THEN <<h[i]>> ELSE <<>>)
         \o PerUrlHosts(h, i + 1)

IsPerUrlFlag(f) == f.id \in {"unicode", "tld"}

\* C8: the flags are in detection order (urgency, threat, payment,
\* credentials, style, the per-URL flags in URL order, lookalike), and the
\* lookalike flag occurs at most once.
C8_FlagsInDetectionOrder ==
    Analyzed =>
        LET f == result.flags
            perUrl == SelectSeq(f, IsPerUrlFlag)
        IN  /\ \A i, j \in 1..Len(f) :
                   i < j => /\ Rank(f[i].id) <= Rank(f[j].id)
                            /\ Rank(f[i].id) = Rank(f[j].id) => Rank(f[i].id) = 6
            /\ [i \in 1..Len(perUrl) |-> perUrl[i].host]
                   = PerUrlHosts(Hosts(text.chars), 1)
            /\ CountId(f, "lookalike") <= 1

C8_Witness ==
    /\ Analyzed
    /\ LET ids == FlagIds(result.flags)
       IN  /\ Len(ids) >= 5
           /\ ids[1] = "urgency"
           /\ \E i \in 1..(Len(ids) - 2) :
                  /\ ids[i] = "style"
                  /\ ids[i + 1] = "tld"
                  /\ ids[i + 2] = "unicode"
                  /\ result.flags[i + 1].host # result.flags[i + 2].host
           /\ ids[Len(ids)] = "lookalike"
    /\ Len(result.flags[Len(result.flags)].pairs) >= 1

\* C9: every judgment llm_assess_message returns has a score in 0..100, a
\* verdict, reasons, advice and a confidence in 0..1.
C9_FullAdvisoryShape ==
    Judged =>
        /\ DOMAIN result = {"score", "verdict", "reasons", "advice", "confidence"}
        /\ result.score \in 0..100
        /\ result.confidence \in 0..1000

\* a payload that is no JSON, no JSON object, or holds a value of the wrong
\* type under one of the five keys
Malformed(p) ==
    \/ p.kind # "object"
    \/ p.score.t \notin {"absent", "num"}
    \/ p.verdict.t \notin {"absent", "str"}
    \/ p.reasons.t \notin {"absent", "list"}
    \/ p.advice.t \notin {"absent", "list"}
    \/ p.confidence.t \notin {"absent", "num"}

IsFallback(r) == r.score = 50 /\ r.verdict = JStr("Caution")

\* C10: without an API key the call raises before a client is created or a
\* network call made; a failing service call and a malformed payload both
\* give a fallback judgment (score 50, verdict "Caution").
C10_FailureKinds ==
    (fn = "llm_assess_message" /\ outcome # "pending") =>
        IF KeyMissing(ResolveApiKey(env))
        THEN outcome = "raised" /\ ~client_created /\ network_calls = 0
        ELSE /\ outcome = "returned"
             /\ env.service \in {"raises", "content_none"} => IsFallback(result)
             /\ (env.service = "content" /\ Malformed(env.payload))
                    => IsFallback(result)
====
